---- MODULE Spec2Model ----
(***************************************************************************)
(* Interval-windowed token-bucket rate limiter (RateLimiter, throttle).    *)
(*                                                                         *)
(* Two editions of the RateLimiter class exist in the repository: the one  *)
(* next to throttle (setLimit / limit accessor) and lib/rate-limiter.js    *)
(* (up, down, setTokensPerInterval, updateLimit).  `variant` selects the   *)
(* edition a behaviour is about; "throttle" is the wrapper returned by     *)
(* throttle(fn, rate, interval), whose limiter is private to the closure.  *)
(*                                                                         *)
(* Time is an integer clock `now` (what Date.now() returns).  A method     *)
(* call is synchronous, so every clock read inside one call returns the    *)
(* same value.  The bucket's `content` is a real number in the program; it *)
(* is kept here multiplied by Interval, which makes the drip               *)
(* elapsed / interval * tokensPerInterval an exact integer.                *)
(***************************************************************************)
EXTENDS Integers, Sequences, FiniteSets, TLC

\* ---------------------------------------------------------------- bounds
\* interval length in clock ticks (constructor argument `interval`)
Interval == 2
\* largest limit handed to the constructor or to a limit-changing call
MaxLimit == 2
\* accept(count) is called with count in 1..MaxCount
MaxCount == 3
\* accept calls per window (caps incomingThisInterval)
MaxIncoming == 3
\* cap of the latency accumulator timeSum
MaxTimeSum == 1
\* the clock runs from 0 to MaxTime: room for an idle stretch > 2 intervals
MaxTime == 2 * Interval + 1

Limits == 1..MaxLimit
Counts == 1..MaxCount
FnArgs == {"a", "b"}
\* up(count, max) and down(count, min) are called with count in Steps
Steps == 0..1

Min(a, b) == IF a < b THEN a ELSE b

VARIABLES
  variant, statCallback, now,
  bucketSize, tokensPerInterval, content, lastDrip,
  curIntervalStart, tokensThisInterval, incomingThisInterval, timeSum,
  incoming, accepted, averageTime,
  goingDown, tokensPerIntervalConfig,
  lastCall, hist

\* the TokenBucket object owned by the limiter
bucketVars == <<bucketSize, tokensPerInterval, content, lastDrip>>
\* the RateLimiter's own fields
limiterVars == <<curIntervalStart, tokensThisInterval, incomingThisInterval,
                 timeSum, incoming, accepted, averageTime>>
\* fields that only lib/rate-limiter.js has
libVars == <<goingDown, tokensPerIntervalConfig>>
configVars == <<variant, statCallback>>
vars == <<configVars, now, bucketVars, limiterVars, libVars, lastCall, hist>>

\* ------------------------------------------------------------ TokenBucket
\* drip: content after lazy replenishment at time t (content * Interval)
BucketDrip(c, ld, tpi, bs, t) == Min(bs * Interval, c + (t - ld) * tpi)

\* TokenBucket.accept(count) at time t: [ok, content, lastDrip] after the call
BucketAccept(count, c, ld, tpi, bs, t) ==
  IF count > bs
    THEN [ok |-> FALSE, content |-> c, lastDrip |-> ld]
    ELSE LET d == BucketDrip(c, ld, tpi, bs, t)
         IN IF d >= count * Interval
              THEN [ok |-> TRUE, content |-> d - count * Interval, lastDrip |-> t]
              ELSE [ok |-> FALSE, content |-> d, lastDrip |-> t]

\* ------------------------------------------------------------ RateLimiter
ZeroStat(limit) == [accepted |-> 0, incoming |-> 0, averageTime |-> 0, limit |-> limit]

\* getStat() evaluated at time t on the given fields
\* faulty variant: the expiry test left out
GetStatStored(t, cis, acc, inc, avg, tpi) ==
  [accepted |-> acc, incoming |-> inc, averageTime |-> avg, limit |-> tpi]
GetStat(t, cis, acc, inc, avg, tpi) ==
  IF t - cis >= Interval
    THEN ZeroStat(tpi)
    ELSE [accepted |-> acc, incoming |-> inc, averageTime |-> avg, limit |-> tpi]

NoStat == [accepted |-> -1, incoming |-> -1, averageTime |-> -1, limit |-> -1]

\* "count > this.tokenBucket.bucketSize": the structural rejection
\* faulty variant: the size check left out
TooBigNever(count) == FALSE
TooBig(count) == count > bucketSize

\* the window has elapsed and this call advances it
\* faulty variant: the window advanced one tick early
ExpiredEarly == now - curIntervalStart >= Interval - 1
Expired == now - curIntervalStart >= Interval

\* the snapshot an advancing call stores; curIntervalStart has already been
\* overwritten with `now` when the three idle tests are evaluated
\* faulty variant: the counters read after they are reset
RollSnapshotAfterReset == [accepted |-> 0, incoming |-> 0, averageTime |-> 0]
RollSnapshot ==
  LET cis1 == now
      idle == now - cis1 >= Interval * 2
  IN [accepted |-> IF idle THEN 0 ELSE tokensThisInterval,
      incoming |-> IF idle THEN 0 ELSE incomingThisInterval + 1,
      averageTime |-> IF idle THEN 0
                      ELSE IF tokensThisInterval # 0
                             THEN timeSum \div tokensThisInterval
                             ELSE 0]

\* the call advances the window (lines 64-80 run)
Rolls(count) == ~TooBig(count) /\ Expired

\* what a statCallback invocation does with the limiter: it calls setLimit(set),
\* or leaves the limit alone (set = 0), and then calls getStat().  Only the
\* edition with setLimit is given such a callback
CallbackChoices(count) ==
  IF variant = "src" /\ Rolls(count) /\ statCallback THEN {0} \cup Limits ELSE {0}

\* the bucket's limit fields when the per-window cap check runs, after the
\* callback has returned
\* faulty variant: the callback's limit change is not seen by the checks
BucketAtCheckStale(set) ==
  [tokensPerInterval |-> tokensPerInterval, bucketSize |-> bucketSize]
BucketAtCheck(set) ==
  [tokensPerInterval |-> IF set # 0 THEN set ELSE tokensPerInterval,
   bucketSize |-> IF set # 0 THEN set ELSE bucketSize]

\* tokensThisInterval as the per-window cap check sees it
\* faulty variant: the rollover does not reset the window count
TokensNeverReset == tokensThisInterval
TokensAfterRoll == IF Expired THEN 0 ELSE tokensThisInterval

\* "count > tokensPerInterval - tokensThisInterval": the per-window cap
\* faulty variants: the cap check left out; the cap check off by one
OverCapNever(count, set) == FALSE
OverCapLoose(count, set) ==
  count > BucketAtCheck(set).tokensPerInterval - TokensAfterRoll + 1
OverCap(count, set) ==
  count > BucketAtCheck(set).tokensPerInterval - TokensAfterRoll

\* the value accept(count) returns
\* faulty variant: every request that passes the size check is granted
AcceptResultSizeOnly(count, set) == ~TooBig(count)
AcceptResult(count, set) ==
  /\ ~TooBig(count)
  /\ ~OverCap(count, set)
  /\ BucketAccept(count, content, lastDrip, BucketAtCheck(set).tokensPerInterval,
                  BucketAtCheck(set).bucketSize, now).ok

\* faulty variant: the callback invoked by every accept that passes the size check
CallbackArgsEveryCall(count) ==
  IF ~TooBig(count) /\ statCallback
    THEN <<[accepted |-> IF Expired THEN RollSnapshot.accepted ELSE accepted,
            incoming |-> IF Expired THEN RollSnapshot.incoming ELSE incoming,
            averageTime |-> IF Expired THEN RollSnapshot.averageTime ELSE averageTime,
            limit |-> tokensPerInterval]>>
    ELSE <<>>
\* the argument accept(count) hands to statCallback: this.getStat() evaluated
\* after the snapshot is stored and curIntervalStart is set to now.  The
\* sequence of the callback's invocations during the call: empty, or one argument
CallbackArgs(count) ==
  IF Rolls(count) /\ statCallback
    THEN <<GetStat(now, now, RollSnapshot.accepted, RollSnapshot.incoming,
                   RollSnapshot.averageTime, tokensPerInterval)>>
    ELSE <<>>

\* what getStat() returns to the callback that calls it after its setLimit
CallbackStat(count, set) ==
  IF Rolls(count) /\ statCallback
    THEN GetStat(now, now, RollSnapshot.accepted, RollSnapshot.incoming,
                 RollSnapshot.averageTime, BucketAtCheck(set).tokensPerInterval)
    ELSE NoStat

\* RateLimiter.accept(count): the limiter's and the bucket's fields after the
\* call, during which the callback, if invoked, makes the choice `set`
LimiterAccept(count, set) ==
  IF TooBig(count)
    THEN /\ incomingThisInterval' = incomingThisInterval + 1
         /\ UNCHANGED <<curIntervalStart, tokensThisInterval, timeSum, incoming,
                        accepted, averageTime, bucketVars, goingDown>>
    ELSE LET k == BucketAtCheck(set)
             b == BucketAccept(count, content, lastDrip, k.tokensPerInterval,
                               k.bucketSize, now)
         IN /\ IF Expired
                 THEN /\ curIntervalStart' = now
                      /\ accepted' = RollSnapshot.accepted
                      /\ incoming' = RollSnapshot.incoming
                      /\ averageTime' = RollSnapshot.averageTime
                      /\ timeSum' = 0
                      /\ goingDown' = FALSE
                      /\ incomingThisInterval' = 0
                 ELSE /\ incomingThisInterval' = incomingThisInterval + 1
                      /\ UNCHANGED <<curIntervalStart, accepted, incoming,
                                     averageTime, timeSum, goingDown>>
            /\ tokensThisInterval' =
                 TokensAfterRoll + (IF ~OverCap(count, set) /\ b.ok THEN count ELSE 0)
            /\ IF OverCap(count, set)
                 THEN UNCHANGED <<content, lastDrip>>
                 ELSE content' = b.content /\ lastDrip' = b.lastDrip
            /\ bucketSize' = k.bucketSize
            /\ tokensPerInterval' = k.tokensPerInterval

\* ------------------------------------------------------------ observation
\* lastCall: the call just made, its arguments and what it returned
\*   op      the method ("tick" for the passage of time)
\*   count   the first argument of accept, setLimit, up, down,
\*           setTokensPerInterval and updateLimit (0 otherwise)
\*   bound   the second argument of up (max) and of down (min)
\*   result  accept's return value
\*   stat    getStat's return value (NoStat otherwise)
\*   rolled  the call advanced the window
\*   cb      the arguments of the statCallback invocations made during the call
\*   cbSet   the argument of the setLimit call the callback made (0: none)
\*   cbStat  what getStat() returned to the callback (NoStat: not called)
\*   idle    accept came a full interval or more after the previous accept call,
\*           or was the first one
\*   fn      the arguments of the invocations of the throttled function
\*   arg     the argument the wrapper was called with ("none" otherwise)
Call(op) == [op |-> op, count |-> 0, bound |-> 0, result |-> FALSE, stat |-> NoStat,
             rolled |-> FALSE, cb |-> <<>>, cbSet |-> 0, cbStat |-> NoStat,
             idle |-> FALSE, fn |-> <<>>, arg |-> "none"]

\* hist: facts about the calls made so far, kept for the limiter of
\* src/unnamed and for the throttled wrapper; the claims about
\* lib/rate-limiter.js read the fields of the limiter only
\*   limit0       the limit given to the constructor
\*   limitChanged a call changed tokensPerInterval or bucketSize
\*   limitBy      the call that set the limit in force: "constructor",
\*                "setLimit", or "other" for the calls of lib/rate-limiter.js
\*   limitArg     the limit it left
\*   windowSum    sum of the counts accepted since the last rollover
\*   nCalls       accept calls since the last rollover (the rolling one included)
\*   fresh        the first window is still open, the limit is the constructor's
\*                and every accept call so far asked for one token
\*   sinceAccept  clock ticks since the previous accept call, counted up to
\*                Interval (-1: no accept call yet)
\*   fnWindow     invocations of the throttled function since the last rollover
\*   recent       recent[k + 1]: the tokens granted at time now - k, for k in
\*                0..Interval; kept for the limiter of src/unnamed while its
\*                limit is the constructor's
NoRecent == [i \in 1..(Interval + 1) |-> 0]

Hist0(n) == [limit0 |-> n, limitChanged |-> FALSE, limitBy |-> "constructor",
             limitArg |-> n,
             windowSum |-> 0, nCalls |-> 0, fresh |-> TRUE,
             sinceAccept |-> -1, fnWindow |-> 0, recent |-> NoRecent]

\* recent after the clock has advanced by d
Shift(r, d) == [i \in 1..(Interval + 1) |-> IF i - d >= 1 THEN r[i - d] ELSE 0]

\* the tokens granted during the last Interval clock ticks, now included
RECURSIVE SumTo(_, _)
SumTo(r, i) == IF i = 0 THEN 0 ELSE r[i] + SumTo(r, i - 1)
TokensLastInterval == SumTo(hist.recent, Interval + 1)

\* accept is called a full interval or more after the previous accept call, or
\* for the first time
IdleCall == hist.sinceAccept = -1 \/ hist.sinceAccept >= Interval

\* hist after accept(count); invoked: the throttled function ran; set: the
\* callback's choice
HistAccept(count, invoked, set) ==
  IF variant = "lib" THEN hist ELSE
  LET r == Rolls(count)
      ok == AcceptResult(count, set)
      changed == hist.limitChanged \/ (set # 0 /\ set # tokensPerInterval)
                                   \/ (set # 0 /\ set # bucketSize)
  IN [hist EXCEPT
        !.limitChanged = changed,
        !.limitBy = IF set # 0 THEN "setLimit" ELSE @,
        !.limitArg = IF set # 0 THEN set ELSE @,
        !.windowSum = (IF r THEN 0 ELSE @) + (IF ok THEN count ELSE 0),
        !.nCalls = IF r THEN 1 ELSE @ + 1,
        !.fresh = @ /\ count = 1 /\ ~Expired,
        !.sinceAccept = 0,
        !.recent = IF changed
                     THEN NoRecent
                     ELSE IF variant = "src" /\ ok
                            THEN [@ EXCEPT ![1] = @ + count]
                            ELSE @,
        !.fnWindow = (IF r THEN 0 ELSE @) + (IF invoked THEN 1 ELSE 0)]

\* hist after the call `by` left the limit at tpi and the bucket size at bs
HistLimit(by, tpi, bs) ==
  IF variant = "lib" THEN hist ELSE
  [hist EXCEPT
     !.limitChanged = @ \/ tpi # tokensPerInterval \/ bs # bucketSize,
     !.fresh = @ /\ tpi = tokensPerInterval /\ bs = bucketSize,
     !.recent = IF tpi # tokensPerInterval \/ bs # bucketSize THEN NoRecent ELSE @,
     !.limitBy = by,
     !.limitArg = tpi]

\* hist after the clock has advanced by d
HistTick(d) ==
  IF variant = "lib" THEN hist ELSE
  [hist EXCEPT
     !.sinceAccept = IF @ = -1 THEN -1 ELSE Min(Interval, @ + d),
     !.recent = Shift(@, d),
     !.fresh = @ /\ now + d - curIntervalStart < Interval]

\* ------------------------------------------------------------------ Init
\* "Fill the token bucket to start": content after the constructor
\* faulty variants: the bucket left as TokenBucket constructs it; the bucket
\* filled past its size
InitialContentEmpty(n) == 0
InitialContentOver(n) == (n + 1) * Interval
InitialContent(n) == n * Interval

\* new RateLimiter(n, Interval, statCallback) at time 0; throttle(fn, n,
\* Interval) builds its limiter without a callback.  The invocation of the
\* callback is the same code in both editions of the class; it is exercised
\* with the edition of src/unnamed
InitOf(v) ==
  /\ variant = v
  /\ statCallback \in (IF variant = "src" THEN BOOLEAN ELSE {FALSE})
  /\ now = 0
  /\ \E n \in Limits :
       /\ bucketSize = n
       /\ tokensPerInterval = n
       /\ content = InitialContent(n)
       /\ tokensPerIntervalConfig = n
       /\ hist = Hist0(n)
  /\ lastDrip = 0
  /\ curIntervalStart = 0
  /\ tokensThisInterval = 0
  /\ incomingThisInterval = 0
  /\ timeSum = 0
  /\ incoming = 0
  /\ accepted = 0
  /\ averageTime = 0
  /\ goingDown = FALSE
  /\ lastCall = Call("new")

InitSrc == InitOf("src")
InitLib == InitOf("lib")
InitThrottle == InitOf("throttle")

\* --------------------------------------------------------------- actions
\* the clock advances between calls
Tick ==
  /\ now < MaxTime
  /\ \E d \in 1..(MaxTime - now) :
       /\ now' = now + d
       /\ hist' = HistTick(d)
  /\ lastCall' = Call("tick")
  /\ UNCHANGED <<configVars, bucketVars, limiterVars, libVars>>

\* limiter.accept(count)
Accept(count) ==
  /\ variant # "throttle"
  /\ incomingThisInterval < MaxIncoming
  /\ \E set \in CallbackChoices(count) :
       /\ LimiterAccept(count, set)
       /\ lastCall' = [Call("accept") EXCEPT
                         !.count = count,
                         !.result = AcceptResult(count, set),
                         !.rolled = Rolls(count),
                         !.idle = IdleCall,
                         !.cb = CallbackArgs(count),
                         !.cbSet = set,
                         !.cbStat = CallbackStat(count, set)]
       /\ hist' = HistAccept(count, FALSE, set)
  /\ UNCHANGED <<configVars, now, tokensPerIntervalConfig>>

\* limiter.addTime(time)
AddTime(time) ==
  /\ variant # "throttle"
  /\ timeSum + time <= MaxTimeSum
  /\ timeSum' = timeSum + time
  /\ lastCall' = Call("addTime")
  /\ UNCHANGED <<configVars, now, bucketVars, curIntervalStart, tokensThisInterval,
                 incomingThisInterval, incoming, accepted, averageTime, libVars,
                 hist>>

\* faulty variant: getStat advances an expired window itself
GetStatCallRolls ==
  /\ variant # "throttle"
  /\ lastCall' = [Call("getStat") EXCEPT
                    !.stat = GetStat(now, curIntervalStart, accepted, incoming,
                                     averageTime, tokensPerInterval)]
  /\ IF Expired
       THEN /\ curIntervalStart' = now
            /\ accepted' = tokensThisInterval
            /\ incoming' = incomingThisInterval
            /\ tokensThisInterval' = 0
            /\ incomingThisInterval' = 0
            /\ UNCHANGED <<timeSum, averageTime>>
       ELSE UNCHANGED limiterVars
  /\ UNCHANGED <<configVars, now, bucketVars, libVars, hist>>
\* limiter.getStat()
GetStatCall ==
  /\ variant # "throttle"
  /\ lastCall' = [Call("getStat") EXCEPT
                    !.stat = GetStat(now, curIntervalStart, accepted, incoming,
                                     averageTime, tokensPerInterval)]
  /\ UNCHANGED <<configVars, now, bucketVars, limiterVars, libVars, hist>>

\* faulty variant: the bucket size is set, tokensPerInterval is not
SetLimitBucketOnly(n) ==
  /\ variant = "src"
  /\ bucketSize' = n
  /\ lastCall' = [Call("setLimit") EXCEPT !.count = n]
  /\ hist' = HistLimit("setLimit", n, n)
  /\ UNCHANGED <<configVars, now, tokensPerInterval, content, lastDrip,
                 limiterVars, libVars>>
\* limiter.setLimit(n), also reached through the `limit` setter
SetLimit(n) ==
  /\ variant = "src"
  /\ bucketSize' = n
  /\ tokensPerInterval' = n
  /\ lastCall' = [Call("setLimit") EXCEPT !.count = n]
  /\ hist' = HistLimit("setLimit", n, n)
  /\ UNCHANGED <<configVars, now, content, lastDrip, limiterVars, libVars>>

\* the invocations of fn made by one call of the wrapper with argument a
\* faulty variant: fn invoked whatever the limiter says
ThrottleInvokesAlways(a) == <<a>>
ThrottleInvokes(a) == IF AcceptResult(1, 0) THEN <<a>> ELSE <<>>

\* the wrapper returned by throttle(fn, rate, interval), called with argument a
ThrottleCall(a) ==
  /\ variant = "throttle"
  /\ incomingThisInterval < MaxIncoming
  /\ LimiterAccept(1, 0)
  /\ lastCall' = [Call("throttled") EXCEPT
                    !.count = 1,
                    !.arg = a,
                    !.result = AcceptResult(1, 0),
                    !.rolled = Rolls(1),
                    !.idle = IdleCall,
                    !.fn = ThrottleInvokes(a)]
  /\ hist' = HistAccept(1, ThrottleInvokes(a) # <<>>, 0)
  /\ UNCHANGED <<configVars, now, tokensPerIntervalConfig>>

\* ------------------------------------------------- lib/rate-limiter.js only
\* limiter.up(count, max)
Up(count, max) ==
  /\ variant = "lib"
  /\ tokensPerInterval' =
       IF tokensPerInterval + count > max THEN max ELSE tokensPerInterval + count
  /\ lastCall' = [Call("up") EXCEPT !.count = count, !.bound = max]
  /\ hist' = HistLimit("other", tokensPerInterval', bucketSize)
  /\ UNCHANGED <<configVars, now, bucketSize, content, lastDrip, limiterVars,
                 libVars>>

\* limiter.down(count, min)
Down(count, min) ==
  LET t == IF goingDown THEN tokensPerInterval - count
                        ELSE tokensThisInterval - count
  IN /\ variant = "lib"
     /\ tokensPerInterval' = IF t < min THEN min ELSE t
     /\ goingDown' = TRUE
     /\ lastCall' = [Call("down") EXCEPT !.count = count, !.bound = min]
     /\ hist' = HistLimit("other", tokensPerInterval', bucketSize)
     /\ UNCHANGED <<configVars, now, bucketSize, content, lastDrip, limiterVars,
                    tokensPerIntervalConfig>>

\* limiter.setTokensPerInterval(n)
SetTokensPerInterval(n) ==
  /\ variant = "lib"
  /\ bucketSize' = n
  /\ tokensPerInterval' = n
  /\ lastCall' = [Call("setTokensPerInterval") EXCEPT !.count = n]
  /\ hist' = HistLimit("other", n, n)
  /\ UNCHANGED <<configVars, now, content, lastDrip, limiterVars, libVars>>

\* faulty variant: a new configured value becomes the limit as it is
UpdateLimitSets(n) ==
  /\ variant = "lib"
  /\ IF tokensPerIntervalConfig # n
       THEN /\ tokensPerIntervalConfig' = n
            /\ bucketSize' = n
            /\ tokensPerInterval' = n
       ELSE UNCHANGED <<tokensPerIntervalConfig, bucketSize, tokensPerInterval>>
  /\ lastCall' = [Call("updateLimit") EXCEPT !.count = n]
  /\ hist' = HistLimit("other", tokensPerInterval', bucketSize')
  /\ UNCHANGED <<configVars, now, content, lastDrip, limiterVars, goingDown>>
\* limiter.updateLimit(n)
UpdateLimit(n) ==
  /\ variant = "lib"
  /\ IF tokensPerIntervalConfig # n
       THEN /\ tokensPerIntervalConfig' = n
            /\ bucketSize' = Min(tokensPerInterval, n)
            /\ tokensPerInterval' = Min(tokensPerInterval, n)
       ELSE UNCHANGED <<tokensPerIntervalConfig, bucketSize, tokensPerInterval>>
  /\ lastCall' = [Call("updateLimit") EXCEPT !.count = n]
  /\ hist' = HistLimit("other", tokensPerInterval', bucketSize')
  /\ UNCHANGED <<configVars, now, content, lastDrip, limiterVars, goingDown>>

\* one edition of the class, or the wrapper, per behaviour
NextSrc ==
  \/ Tick
  \/ \E c \in Counts : Accept(c)
  \/ \E t \in 1..MaxTimeSum : AddTime(t)
  \/ GetStatCall
  \/ \E n \in Limits : SetLimit(n)

\* addTime and getStat are the same code in both editions; they are exercised
\* by NextSrc
NextLib ==
  \/ Tick
  \/ \E c \in Counts : Accept(c)
  \/ \E c \in Steps, m \in Limits : Up(c, m)
  \/ \E c \in Steps, m \in 0..1 : Down(c, m)
  \/ \E n \in Limits : SetTokensPerInterval(n)
  \/ \E n \in Limits : UpdateLimit(n)

NextThrottle ==
  \/ Tick
  \/ \E a \in FnArgs : ThrottleCall(a)

SpecSrc == InitSrc /\ [][NextSrc]_vars
SpecLib == InitLib /\ [][NextLib]_vars
SpecThrottle == InitThrottle /\ [][NextThrottle]_vars

\* ------------------------------------------------------------- properties

\* C1: with the limit unchanged since construction, the counts of the accept
\* calls that returned true since the last rollover (one fixed window) never sum
\* to more than tokensPerInterval
WindowCap == ~hist.limitChanged => hist.windowSum <= tokensPerInterval

\* a window after the first one is used up and a further request is turned down
WindowCapWitness ==
  /\ ~hist.limitChanged
  /\ curIntervalStart > 0
  /\ hist.windowSum = tokensPerInterval
  /\ lastCall.op = "accept" /\ ~lastCall.result
  /\ lastCall.count <= bucketSize

\* C2 as stated: tokensThisInterval <= tokensPerInterval in every reachable state
LimitInvariant == tokensThisInterval <= tokensPerInterval

\* C2, amended: no call breaks tokensThisInterval <= tokensPerInterval unless it
\* lowers tokensPerInterval
LimitInvariantKept ==
  [][(tokensThisInterval <= tokensPerInterval /\ tokensPerInterval' >= tokensPerInterval)
       => tokensThisInterval' <= tokensPerInterval']_vars

\* after a limit change an accepted request takes the last token of the window
LimitInvariantWitness ==
  /\ hist.limitChanged
  /\ lastCall.op = "accept" /\ lastCall.result
  /\ tokensThisInterval = tokensPerInterval

\* C3: in the first window of a limiter with limit N, with accept(1) calls only
\* and no limit change, the k-th call returns true exactly when k <= N
FreshStart ==
  (hist.fresh /\ lastCall.op = "accept") =>
    /\ lastCall.result = (hist.nCalls <= hist.limit0)
    /\ hist.windowSum = Min(hist.nCalls, hist.limit0)

\* the (N+1)-th accept(1) of the first window is turned down, N > 1
FreshStartWitness ==
  /\ hist.fresh /\ lastCall.op = "accept"
  /\ hist.limit0 > 1
  /\ hist.nCalls = hist.limit0 + 1
  /\ ~lastCall.result

\* C4: with the limit unchanged, accept(count) with 0 < count <= tokensPerInterval
\* made a full interval or more after the previous accept call, or as the first
\* call, returns true
Recovers ==
  (/\ lastCall.op = "accept"
   /\ lastCall.idle
   /\ ~hist.limitChanged
   /\ lastCall.count > 0
   /\ lastCall.count <= tokensPerInterval) => lastCall.result

\* the whole limit is granted again one idle interval after the window was used up
RecoversWitness ==
  /\ lastCall.op = "accept" /\ lastCall.idle /\ ~hist.limitChanged
  /\ lastCall.rolled
  /\ accepted = tokensPerInterval
  /\ lastCall.count = tokensPerInterval
  /\ lastCall.result

\* C5: accept(count) with count > bucketSize returns false, invokes no callback
\* and changes nothing but incomingThisInterval, which it increments
OversizeRejected ==
  [][(lastCall'.op = "accept" /\ lastCall'.count > bucketSize) =>
       /\ ~lastCall'.result
       /\ lastCall'.cb = <<>>
       /\ ~lastCall'.rolled
       /\ incomingThisInterval' = incomingThisInterval + 1
       /\ UNCHANGED <<curIntervalStart, tokensThisInterval, timeSum, incoming,
                      accepted, averageTime, bucketVars, libVars>>]_vars

\* an oversize request arrives when the window has expired, callback registered
OversizeRejectedWitness ==
  /\ lastCall.op = "accept" /\ lastCall.count > bucketSize
  /\ now - curIntervalStart >= Interval
  /\ statCallback
  /\ tokensThisInterval > 0

\* C6: a rollover more than two intervals after the start of the window it
\* closes stores an all-zero snapshot and hands it to statCallback
IdleSnapshotZero ==
  [][(/\ lastCall'.op = "accept"
      /\ lastCall'.rolled
      /\ now - curIntervalStart > 2 * Interval) =>
       /\ accepted' = 0 /\ incoming' = 0 /\ averageTime' = 0
       /\ \A i \in 1..Len(lastCall'.cb) :
            lastCall'.cb[i] = ZeroStat(tokensPerInterval)]_vars

\* C7: getStat returns zeros and the limit once the window has expired, and the
\* stored snapshot with the limit otherwise
GetStatReturns ==
  lastCall.op = "getStat" =>
    lastCall.stat =
      IF now - curIntervalStart >= Interval
        THEN [accepted |-> 0, incoming |-> 0, averageTime |-> 0,
              limit |-> tokensPerInterval]
        ELSE [accepted |-> accepted, incoming |-> incoming,
              averageTime |-> averageTime, limit |-> tokensPerInterval]

\* getStat on an expired window hides a stored snapshot that is not zero
GetStatReturnsWitness ==
  /\ lastCall.op = "getStat"
  /\ now - curIntervalStart >= Interval
  /\ accepted > 0
  /\ lastCall.stat.accepted = 0

\* C8: a registered statCallback is invoked once by a call that advances the
\* window, with the snapshot just stored and the limit, and by no other call
CallbackPerRollover ==
  [][statCallback =>
       IF curIntervalStart' # curIntervalStart
         THEN lastCall'.cb = <<[accepted |-> accepted', incoming |-> incoming',
                                averageTime |-> averageTime',
                                limit |-> tokensPerInterval]>>
         ELSE lastCall'.cb = <<>>]_vars

\* the callback receives the counters of a window in which tokens were granted
CallbackPerRolloverWitness ==
  /\ statCallback
  /\ Len(lastCall.cb) = 1
  /\ lastCall.cb[1].accepted > 0
  /\ lastCall.cb[1].incoming > lastCall.cb[1].accepted

\* C9: while setLimit(L) is the last limit change, accept(count) with count > L
\* returns false, an accepted request leaves tokensThisInterval <= L, and
\* getStat reports limit L
SetLimitInForce ==
  hist.limitBy = "setLimit" =>
    /\ (lastCall.op = "accept" /\ lastCall.count > hist.limitArg) => ~lastCall.result
    /\ (lastCall.op = "accept" /\ lastCall.result) => tokensThisInterval <= hist.limitArg
    /\ lastCall.op = "getStat" => lastCall.stat.limit = hist.limitArg

\* after raising the limit, one window grants more than the constructor's limit
SetLimitInForceWitness ==
  /\ hist.limitBy = "setLimit"
  /\ lastCall.op = "accept" /\ lastCall.result
  /\ hist.windowSum > hist.limit0
  /\ hist.windowSum = hist.limitArg

\* C10: a call of the throttled wrapper invokes fn once, with the call's
\* argument, when the limiter accepts one token and not at all otherwise; fn
\* runs at most `rate` times between two rollovers
ThrottleFires ==
  /\ lastCall.op = "throttled" =>
       lastCall.fn = IF lastCall.result THEN <<lastCall.arg>> ELSE <<>>
  /\ hist.fnWindow <= hist.limit0

\* a call is swallowed in a later window after fn ran `rate` times in it
ThrottleFiresWitness ==
  /\ lastCall.op = "throttled" /\ ~lastCall.result /\ lastCall.fn = <<>>
  /\ curIntervalStart > 0
  /\ hist.fnWindow = hist.limit0

\* C11 as stated: 0 <= content <= bucketSize in every reachable state
ContentInBucket == 0 <= content /\ content <= bucketSize * Interval

\* C11, amended: content is never negative; content <= bucketSize holds after
\* construction and no call breaks it unless it lowers bucketSize; an accepted
\* request leaves content <= bucketSize - count
ContentKept ==
  /\ 0 <= content /\ content <= bucketSize * Interval
  /\ [][/\ 0 <= content'
        /\ (content <= bucketSize * Interval /\ bucketSize' >= bucketSize)
             => content' <= bucketSize' * Interval
        /\ (lastCall'.op = "accept" /\ lastCall'.result)
             => content' <= (bucketSize' - lastCall'.count) * Interval]_vars

\* the limit was lowered and an accepted request finds the bucket cut to its size
ContentKeptWitness ==
  /\ lastCall.op = "accept" /\ lastCall.result
  /\ bucketSize < hist.limit0
  /\ content = (bucketSize - lastCall.count) * Interval

\* C12: an accept call that advances the window within two intervals of its
\* start stores accepted = tokensThisInterval, incoming = incomingThisInterval
\* (this call counted) and averageTime = floor(timeSum / tokensThisInterval), 0
\* when no token was granted, all as they were before the reset; the window
\* counters then restart from 0 and curIntervalStart is the time of the call
SnapshotOnRoll ==
  [][(/\ lastCall'.op = "accept"
      /\ lastCall'.rolled
      /\ now - curIntervalStart <= 2 * Interval) =>
       /\ accepted' = tokensThisInterval
       /\ incoming' = incomingThisInterval + 1
       /\ averageTime' = (IF tokensThisInterval = 0 THEN 0
                          ELSE timeSum \div tokensThisInterval)
       /\ tokensThisInterval' = (IF lastCall'.result THEN lastCall'.count ELSE 0)
       /\ incomingThisInterval' = 0
       /\ timeSum' = 0
       /\ curIntervalStart' = now']_vars

\* the closed window granted tokens, turned a request down and measured a latency
SnapshotOnRollWitness ==
  /\ lastCall.op = "accept" /\ lastCall.rolled
  /\ curIntervalStart = now
  /\ accepted > 0
  /\ incoming > accepted
  /\ averageTime > 0
  /\ timeSum = 0 /\ incomingThisInterval = 0

\* C13: between calls, incomingThisInterval is the number of accept calls made
\* since the latest rollover, the call that advanced the window included
IncomingCountsWindow == incomingThisInterval = hist.nCalls

\* C14: curIntervalStart never decreases; only accept changes it, only when
\* now - curIntervalStart >= interval, and to now, so two consecutive rollovers
\* and statCallback invocations are at least one interval apart; getStat,
\* addTime and setLimit leave it unchanged
WindowStartAdvances ==
  [][/\ curIntervalStart' >= curIntervalStart
     /\ (curIntervalStart' # curIntervalStart \/ lastCall'.cb # <<>>) =>
          /\ lastCall'.op = "accept"
          /\ now - curIntervalStart >= Interval
          /\ curIntervalStart' = now
          /\ curIntervalStart' - curIntervalStart >= Interval
     /\ lastCall'.op \in {"getStat", "addTime", "setLimit"} =>
          UNCHANGED curIntervalStart]_vars

\* a second rollover, exactly one interval after the first: the closed window
\* was opened by a granted request and saw no other call
WindowStartAdvancesWitness ==
  /\ lastCall.op = "accept" /\ lastCall.rolled /\ lastCall.cb # <<>>
  /\ curIntervalStart = now
  /\ now = 2 * Interval
  /\ accepted > 0 /\ incoming = 1

\* C15: getStat changes no field of the limiter or of its bucket, so it changes
\* no later result or snapshot; after getStat on an expired window the next
\* accept that passes the size check still advances the window and invokes a
\* registered statCallback
GetStatReadOnly ==
  [][/\ lastCall'.op = "getStat" =>
          UNCHANGED <<configVars, now, bucketVars, limiterVars, libVars, hist>>
     /\ (/\ lastCall.op = "getStat"
         /\ lastCall'.op = "accept"
         /\ now - curIntervalStart >= Interval
         /\ lastCall'.count <= bucketSize) =>
          /\ lastCall'.rolled
          /\ curIntervalStart' = now
          /\ accepted' = tokensThisInterval
          /\ statCallback => Len(lastCall'.cb) = 1]_vars

\* getStat is called on an expired window whose counters are still to be stored
GetStatReadOnlyWitness ==
  /\ lastCall.op = "getStat"
  /\ now - curIntervalStart >= Interval
  /\ statCallback
  /\ tokensThisInterval > 0
  /\ incomingThisInterval > tokensThisInterval
  /\ lastCall.stat = ZeroStat(tokensPerInterval)

\* C18: with the limit fixed at N since construction, the tokens granted in any
\* time span of at most one interval sum to at most 2 * N
BurstBound == ~hist.limitChanged => TokensLastInterval <= 2 * hist.limit0

\* a burst that straddles a rollover: the whole limit granted just before the
\* window ends and again when the next one opens, N > 1
BurstBoundWitness ==
  /\ ~hist.limitChanged
  /\ hist.limit0 > 1
  /\ lastCall.op = "accept" /\ lastCall.rolled /\ lastCall.result
  /\ hist.recent[1] = hist.limit0
  /\ TokensLastInterval = 2 * hist.limit0

\* C19: on a rollover statCallback runs after the snapshot is stored, the
\* counters are reset and curIntervalStart is updated: getStat() called in the
\* callback returns the snapshot just stored; and before the cap check and the
\* bucket debit: a setLimit(L) made in the callback decides whether the
\* triggering request is granted
CallbackBeforeCheck ==
  [][(lastCall'.op = "accept" /\ lastCall'.cb # <<>>) =>
       /\ curIntervalStart' = now
       /\ lastCall'.cbStat = [accepted |-> accepted', incoming |-> incoming',
                              averageTime |-> averageTime',
                              limit |-> tokensPerInterval']
       /\ accepted' = tokensThisInterval
       /\ incoming' = incomingThisInterval + 1
       /\ lastCall'.cbSet # 0 =>
            /\ tokensPerInterval' = lastCall'.cbSet
            /\ bucketSize' = lastCall'.cbSet
            /\ lastCall'.result =
                 (/\ lastCall'.count <= lastCall'.cbSet
                  /\ BucketDrip(content, lastDrip, lastCall'.cbSet,
                                lastCall'.cbSet, now) >= lastCall'.count * Interval)
            /\ tokensThisInterval' =
                 (IF lastCall'.result THEN lastCall'.count ELSE 0)]_vars

\* the callback lowers the limit under the count of the triggering request,
\* which the limit in force when accept was called would have granted
CallbackBeforeCheckWitness ==
  /\ lastCall.op = "accept" /\ lastCall.cb # <<>>
  /\ lastCall.cbSet # 0
  /\ lastCall.count > lastCall.cbSet
  /\ lastCall.count <= lastCall.cb[1].limit
  /\ ~lastCall.result
  /\ lastCall.cbStat.limit = lastCall.cbSet
  /\ lastCall.cbStat.accepted > 0
  /\ BucketDrip(content, lastDrip, lastCall.cb[1].limit, lastCall.cb[1].limit, now)
       >= lastCall.count * Interval

\* C16: in lib/rate-limiter.js, down(count, min) with count >= 0 leaves
\* tokensPerInterval = max(min, tokensPerInterval - count), which is not above
\* the limit before the call when min is not
DownDecreases ==
  [][lastCall'.op = "down" =>
       /\ tokensPerInterval' =
            (IF tokensPerInterval - lastCall'.count < lastCall'.bound
               THEN lastCall'.bound
               ELSE tokensPerInterval - lastCall'.count)
       /\ lastCall'.bound <= tokensPerInterval =>
            tokensPerInterval' <= tokensPerInterval]_vars

\* C17: in lib/rate-limiter.js, updateLimit(n) never raises tokensPerInterval;
\* it changes nothing when n is the configured value, and otherwise records n
\* and sets bucketSize and tokensPerInterval to min(tokensPerInterval, n)
UpdateLimitNeverRaises ==
  [][lastCall'.op = "updateLimit" =>
       /\ tokensPerInterval' <= tokensPerInterval
       /\ IF tokensPerIntervalConfig = lastCall'.count
            THEN UNCHANGED <<tokensPerIntervalConfig, bucketSize, tokensPerInterval>>
            ELSE /\ tokensPerIntervalConfig' = lastCall'.count
                 /\ tokensPerInterval' = Min(tokensPerInterval, lastCall'.count)
                 /\ bucketSize' = tokensPerInterval'
       /\ UNCHANGED <<content, lastDrip, limiterVars, goingDown>>]_vars

\* the limit and the bucket size are under the constructor's limit, a down()
\* was made in this window, and updateLimit, given the constructor's limit,
\* has not brought it back
UpdateLimitNeverRaisesWitness ==
  /\ lastCall.op = "updateLimit"
  /\ lastCall.count = hist.limit0
  /\ tokensPerIntervalConfig = hist.limit0
  /\ tokensPerInterval < hist.limit0
  /\ bucketSize = tokensPerInterval
  /\ goingDown

====
